---- MODULE Spec2Model ----
(***************************************************************************)
(* A model of the AQI / public-transport processing core:                  *)
(*   data_processor.py  DataProcessor (process_aqi_data,                   *)
(*                      process_transport_data, merge_datasets,            *)
(*                      calculate_correlations, get_summary_statistics,    *)
(*                      add_lag_features)                                  *)
(*   data_fetcher.py    TransportDataGenerator.generate_transport_data     *)
(*                                                                         *)
(* Numbers are exact rationals <<n, d>> (d > 0, lowest terms); a missing   *)
(* value (NaN / None) is the empty tuple.  A table (DataFrame) is a record *)
(* [date |-> sequence of dates, cols |-> function from column name to a    *)
(* sequence of cells]; rows are the positions 1..Len(date).  A date is a   *)
(* day ordinal, day 1 being Monday 2024-01-01.                             *)
(***************************************************************************)
EXTENDS Integers, Sequences, FiniteSets, TLC

VARIABLES pc,           \* what the caller has done last
          aqi_df,       \* the caller's AQI table object (passed by reference)
          transport_df, \* the caller's transport table object
          arg,          \* the arguments of the last call as they were passed
          merged_data,  \* DataProcessor.merged_data: <<>> (None) or <<table>>
          ret,          \* what the last call returned or raised
          ref,          \* one earlier call kept for comparison: <<>> or <<call>>
          given_df,     \* the caller's table object passed as merged_df to the
                        \* last call, as it is after the call: <<>> or <<table>>
          gen           \* TransportDataGenerator and its loop state

vars == <<pc, aqi_df, transport_df, arg, merged_data, ret, ref, given_df, gen>>

-----------------------------------------------------------------------------
(* Bounds of the model *)

MaxLen == 3        \* rows of an input AQI table
MaxDate == 3       \* dates are 1..MaxDate (one day more where a family says so)
Margin == 2        \* single-row AQI inputs reach Margin beyond the bin range
MaxEvents == 2     \* events of an input transport table
MaxDays == 3       \* days a TransportDataGenerator is asked for
MaxRows == 3       \* rows of a table given to add_lag_features
MaxPm25 == 50140   \* PM2.5 concentrations are 0.00 .. MaxPm25 / 100

Dates == 1..MaxDate

-----------------------------------------------------------------------------
(* Numbers *)

NaN == <<>>

IsNaN(x) == Len(x) = 0

Abs(x) == IF x < 0 THEN -x ELSE x

RECURSIVE Gcd(_, _)
Gcd(a, b) == IF b = 0 THEN a ELSE Gcd(b, a % b)

Rat(n, d) ==
    LET s == IF d < 0 THEN -1 ELSE 1
        g == Gcd(Abs(n), Abs(d))
    IN  <<(s * n) \div g, (s * d) \div g>>

Num(n) == <<n, 1>>

RAdd(x, y) == Rat(x[1] * y[2] + y[1] * x[2], x[2] * y[2])

RSub(x, y) == Rat(x[1] * y[2] - y[1] * x[2], x[2] * y[2])

RMul(x, y) == Rat(x[1] * y[1], x[2] * y[2])

RDiv(x, y) == Rat(x[1] * y[2], x[2] * y[1])

RLt(x, y) == x[1] * y[2] < y[1] * x[2]

RLe(x, y) == x[1] * y[2] <= y[1] * x[2]

Idx(s) == 1..Len(s)

Range(s) == {s[i] : i \in Idx(s)}

Max(S) == CHOOSE x \in S : \A y \in S : y <= x

Min(S) == CHOOSE x \in S : \A y \in S : x <= y

-----------------------------------------------------------------------------
(* Calendar features: Series.dt.day_name(), Series.dt.weekday >= 5 *)

weekday(d) == (d - 1) % 7

DayNames ==
    <<"Monday", "Tuesday", "Wednesday", "Thursday", "Friday", "Saturday", "Sunday">>

day_name(d) == DayNames[weekday(d) + 1]

is_weekend(d) == weekday(d) >= 5

-----------------------------------------------------------------------------
(* Tables *)

Columns(df) == DOMAIN df.cols

NRows(df) == Len(df.date)

\* df[name] = column: the column is added or replaced, the rest is kept
SetCol(df, name, column) == [df EXCEPT !.cols = (name :> column) @@ df.cols]

-----------------------------------------------------------------------------
(* process_aqi_data *)

numeric_cols == {"AQI", "PM2.5", "PM10", "NO2", "Ozone"}

\* interpolate(method='linear', limit_area='inside'): trailing gaps stay missing
interpolate_inside(col) ==
    [i \in Idx(col) |->
        IF ~IsNaN(col[i]) THEN col[i]
        ELSE LET before == {j \in 1..(i - 1) : ~IsNaN(col[j])}
                 after == {j \in (i + 1)..Len(col) : ~IsNaN(col[j])}
             IN  IF before = {} \/ after = {} THEN NaN
                 ELSE LET a == Max(before)
                          b == Min(after)
                      IN  RAdd(col[a],
                               RMul(RSub(col[b], col[a]), Rat(i - a, b - a)))]

\* Series.interpolate(method='linear'): the rows are taken as equally spaced;
\* a gap between two present values is filled on the straight line between
\* them, a trailing gap repeats the last present value (limit_direction
\* 'forward'), a leading gap stays missing.
interpolate(col) ==
    [i \in Idx(col) |->
        IF ~IsNaN(col[i]) THEN col[i]
        ELSE LET before == {j \in 1..(i - 1) : ~IsNaN(col[j])}
                 after == {j \in (i + 1)..Len(col) : ~IsNaN(col[j])}
             IN  IF before = {} THEN NaN
                 ELSE IF after = {} THEN col[Max(before)]
                 ELSE LET a == Max(before)
                          b == Min(after)
                      IN  RAdd(col[a],
                               RMul(RSub(col[b], col[a]), Rat(i - a, b - a)))]

\* Series.median(): missing values are skipped; the middle value, or the mean
\* of the two middle values; missing when nothing is present
median(col) ==
    LET present == SelectSeq(col, LAMBDA x : ~IsNaN(x))
        sorted == SortSeq(present, RLt)
        n == Len(sorted)
    IN  IF n = 0 THEN NaN
        ELSE IF n % 2 = 1 THEN sorted[(n + 1) \div 2]
        ELSE RDiv(RAdd(sorted[n \div 2], sorted[n \div 2 + 1]), Num(2))

\* Series.fillna(value): fillna(NaN) changes nothing
fillna(col, value) == [i \in Idx(col) |-> IF IsNaN(col[i]) THEN value ELSE col[i]]

bins == <<0, 50, 100, 150, 200, 300, 500>>

labels ==
    <<"Good", "Moderate", "Unhealthy for Sensitive", "Unhealthy",
      "Very Unhealthy", "Hazardous">>

\* pd.cut(..., right=False): bin i is [bins[i], bins[i+1])
cut_right_false(x) ==
    IF IsNaN(x) THEN NaN
    ELSE LET hit == {i \in Idx(labels) :
                        RLe(Num(bins[i]), x) /\ RLt(x, Num(bins[i + 1]))}
         IN  IF hit = {} THEN NaN ELSE <<labels[CHOOSE i \in hit : TRUE]>>

\* pd.cut(x, bins, labels, include_lowest=True) with the default right=True:
\* bin i is (bins[i], bins[i+1]], the first bin also holds bins[1] itself;
\* anything else, a missing value included, has no category
cut(x) ==
    IF IsNaN(x) THEN NaN
    ELSE IF x = Num(bins[1]) THEN <<labels[1]>>
    ELSE LET hit == {i \in Idx(labels) :
                        RLt(Num(bins[i]), x) /\ RLe(x, Num(bins[i + 1]))}
         IN  IF hit = {} THEN NaN ELSE <<labels[CHOOSE i \in hit : TRUE]>>

\* lines 39-44: the loop over the numeric columns that are present
CleanNumeric(df) ==
    [df EXCEPT !.cols =
        [c \in Columns(df) |->
            IF c \in numeric_cols
            THEN LET filled == interpolate(df.cols[c])
                 IN  fillna(filled, median(filled))
            ELSE df.cols[c]]]

\* lines 54-58: the calendar columns
AddTemporal(df) ==
    SetCol(SetCol(df, "day_of_week", [i \in Idx(df.date) |-> day_name(df.date[i])]),
           "is_weekend", [i \in Idx(df.date) |-> is_weekend(df.date[i])])

\* The table object after process_aqi_data(df) and what the call gives back.
\* The table is changed in place; without an AQI column pd.cut's argument
\* raises KeyError after the numeric columns were cleaned.
process_aqi_data(df) ==
    LET cleaned == CleanNumeric(df)
    IN  IF "AQI" \notin Columns(df)
        THEN [df |-> cleaned, raised |-> TRUE]
        ELSE [df |-> AddTemporal(SetCol(cleaned, "AQI_Category",
                         [i \in Idx(df.date) |-> cut(cleaned.cols["AQI"][i])])),
              raised |-> FALSE]

-----------------------------------------------------------------------------
(* process_transport_data *)

RECURSIVE SetToSortedSeq(_)
SetToSortedSeq(S) ==
    IF S = {} THEN <<>>
    ELSE LET m == Min(S) IN <<m>> \o SetToSortedSeq(S \ {m})

RECURSIVE SumRows(_, _)
SumRows(col, rows) ==
    IF rows = {} THEN Num(0)
    ELSE LET i == CHOOSE i \in rows : TRUE
         IN  RAdd(col[i], SumRows(col, rows \ {i}))

\* pivot_table(index=[date, ...], columns='mode', values='number_of_passengers',
\* aggfunc='sum').reset_index(): one row per date (the other index columns
\* are functions of the date), dates ascending, one column per mode seen, the
\* cell the sum of the group; a (date, mode) with no event has no group and
\* its cell is missing (no fill_value is given)
pivot_table(df) ==
    LET dates == SetToSortedSeq(Range(df.date))
        modes == Range(df.cols["mode"])
        rows(d, m) == {i \in Idx(df.date) : df.date[i] = d /\ df.cols["mode"][i] = m}
    IN  [date |-> dates,
         cols |-> [m \in modes |->
                     [k \in Idx(dates) |->
                         IF rows(dates[k], m) = {} THEN NaN
                         ELSE SumRows(df.cols["number_of_passengers"],
                                      rows(dates[k], m))]]]

\* DataFrame.get(name, 0): the column, or the scalar 0 broadcast over the rows
get(df, name) ==
    IF name \in Columns(df) THEN df.cols[name]
    ELSE [i \in Idx(df.date) |-> Num(0)]

\* Series + Series: missing when either side is missing
add(x, y) == IF IsNaN(x) \/ IsNaN(y) THEN NaN ELSE RAdd(x, y)

\* lines 82-84
total_passengers(pivot) ==
    [i \in Idx(pivot.date) |-> add(get(pivot, "bus")[i], get(pivot, "metro")[i])]

\* The table object after process_transport_data(df) (the calendar columns
\* are added in place) and the new table the call gives back
process_transport_data(df) ==
    LET marked == AddTemporal(df)
        pivot == AddTemporal(pivot_table(marked))
    IN  [df |-> marked,
         out |-> SetCol(pivot, "total_passengers", total_passengers(pivot))]

-----------------------------------------------------------------------------
(* merge_datasets *)

\* the rows of a table with date d, in row order
RowsOn(df, d) == SelectSeq([i \in Idx(df.date) |-> i], LAMBDA i : df.date[i] = d)

\* pd.merge(left, right, on='date', how='left'): every left row is kept
JoinPairs_left(left, right) ==
    LET RECURSIVE From(_)
        From(i) ==
            IF i > NRows(left) THEN <<>>
            ELSE LET js == RowsOn(right, left.date[i])
                 IN  (IF js = <<>> THEN <<<<i, 0>>>>
                      ELSE [k \in Idx(js) |-> <<i, js[k]>>]) \o From(i + 1)
    IN  From(1)

\* pd.merge(left, right, on='date', how='inner'): the pairs of a left row and
\* a right row with the same date, in the order of the left rows
JoinPairs(left, right) ==
    LET RECURSIVE From(_)
        From(i) ==
            IF i > NRows(left) THEN <<>>
            ELSE LET js == RowsOn(right, left.date[i])
                 IN  [k \in Idx(js) |-> <<i, js[k]>>] \o From(i + 1)
    IN  From(1)

\* lines 95-110: the join, with the columns both sides have (the calendar
\* columns) taken from the AQI side and their suffixed copies dropped
Join(left, right) ==
    LET pairs == JoinPairs(left, right)
        cell(col, k) == IF k = 0 THEN NaN ELSE col[k]
    IN  [date |-> [k \in Idx(pairs) |-> left.date[pairs[k][1]]],
         cols |-> [c \in Columns(left) \cup Columns(right) |->
                     [k \in Idx(pairs) |->
                         IF c \in Columns(left) THEN left.cols[c][pairs[k][1]]
                         ELSE cell(right.cols[c], pairs[k][2])]]]

\* sort_values('date').reset_index(drop=True)
sort_values(df) ==
    LET order == SortSeq([i \in Idx(df.date) |-> i],
                         LAMBDA i, j : df.date[i] < df.date[j])
    IN  [date |-> [k \in Idx(order) |-> df.date[order[k]]],
         cols |-> [c \in Columns(df) |->
                     [k \in Idx(order) |-> df.cols[c][order[k]]]]]

\* what merge_datasets(aqi, transport) does to its two arguments and what it
\* stores and gives back; KeyError when the AQI table has no AQI column
merge_datasets(aqi, transport) ==
    LET a == process_aqi_data(aqi)
        t == process_transport_data(transport)
    IN  IF a.raised
        THEN [aqi |-> a.df, transport |-> transport, raised |-> TRUE]
        ELSE [aqi |-> a.df, transport |-> t.df, raised |-> FALSE,
              merged |-> sort_values(Join(a.df, t.out))]

-----------------------------------------------------------------------------
(* calculate_correlations *)

RECURSIVE SumSeq(_)
SumSeq(s) == IF s = <<>> THEN Num(0) ELSE RAdd(Head(s), SumSeq(Tail(s)))

\* Series.dropna()
dropna(col) == SelectSeq(col, LAMBDA x : ~IsNaN(x))

\* scipy.stats.pearsonr(x, y).  r = Sxy / sqrt(Sxx * Syy) is kept as its sign
\* and its square; the p-value, the two-sided tail probability of r among n
\* observations, is kept as the pair (n, r^2) it is a function of.
\* ValueError when the lengths differ or are below 2; (nan, nan) when an
\* input is constant.
pearsonr(x, y) ==
    IF Len(x) # Len(y) \/ Len(x) < 2 THEN [raised |-> TRUE]
    ELSE IF (\A i \in Idx(x) : x[i] = x[1]) \/ (\A i \in Idx(y) : y[i] = y[1])
    THEN [raised |-> FALSE, statistic |-> NaN, pvalue |-> NaN]
    ELSE LET n == Len(x)
             xmean == RDiv(SumSeq(x), Num(n))
             ymean == RDiv(SumSeq(y), Num(n))
             xm == [i \in Idx(x) |-> RSub(x[i], xmean)]
             ym == [i \in Idx(y) |-> RSub(y[i], ymean)]
             Sxy == SumSeq([i \in Idx(x) |-> RMul(xm[i], ym[i])])
             Sxx == SumSeq([i \in Idx(x) |-> RMul(xm[i], xm[i])])
             Syy == SumSeq([i \in Idx(y) |-> RMul(ym[i], ym[i])])
             sq == RDiv(RMul(Sxy, Sxy), RMul(Sxx, Syy))
             sign == IF Sxy[1] > 0 THEN 1 ELSE IF Sxy[1] < 0 THEN -1 ELSE 0
         IN  [raised |-> FALSE,
              statistic |-> <<[sign |-> sign, sq |-> sq]>>,
              pvalue |-> <<[n |-> n, sq |-> sq]>>]

\* r^2 at which the two-sided p-value of n observations is 0.05 (n = 4: p is
\* 1 - |r|, so 0.95^2 exactly; the others to six places, no r^2 of the
\* model's small tables lies that close)
CriticalSq(n) ==
    CASE n = 3 -> Rat(993844, 1000000)
      [] n = 4 -> Rat(9025, 10000)
      [] n = 5 -> Rat(771480, 1000000)
      [] n = 6 -> Rat(658372, 1000000)
      [] n = 7 -> Rat(569259, 1000000)
      [] n = 8 -> Rat(499474, 1000000)

\* p_value < 0.05: False for nan; with n = 2 the p-value is 1
below_005(p) ==
    /\ ~IsNaN(p)
    /\ p[1].n > 2
    /\ RLt(CriticalSq(p[1].n), p[1].sq)

\* the cache wins over the table given
EffectiveTable_cache(given, cache) == IF cache # <<>> THEN cache ELSE given

\* lines 120-121 (153-154): the table given, else self.merged_data
EffectiveTable(given, cache) == IF given = <<>> THEN cache ELSE given

aqi_cols == <<"AQI", "PM2.5", "PM10", "NO2", "Ozone">>

transport_cols == <<"bus", "metro", "total_passengers">>

key(aqi_col, transport_col) == aqi_col \o "_vs_" \o transport_col

\* lines 136-147: one entry of the result
entry(x, y) ==
    LET r == pearsonr(dropna(x), dropna(y))
    IN  IF r.raised THEN <<>>
        ELSE <<[correlation |-> r.statistic,
                p_value |-> r.pvalue,
                significant |-> below_005(r.pvalue)]>>

\* lines 126-149 on a table; an exception of pearsonr ends the call
correlations(df) ==
    LET as == {c \in Range(aqi_cols) : c \in Columns(df)}
        ts == {c \in Range(transport_cols) : c \in Columns(df)}
        entries == [k \in {key(a, t) : a \in as, t \in ts} |->
                      LET a == CHOOSE a \in as : \E t \in ts : key(a, t) = k
                          t == CHOOSE t \in ts : key(a, t) = k
                      IN  entry(df.cols[a], df.cols[t])]
    IN  IF \E k \in DOMAIN entries : entries[k] = <<>>
        THEN [kind |-> "raise", exc |-> "ValueError"]
        ELSE [kind |-> "dict", dict |-> [k \in DOMAIN entries |-> entries[k][1]]]

NoMergedData == [kind |-> "raise", exc |-> "ValueError: No merged data available"]

\* calculate_correlations(merged_df=given) with self.merged_data = cache
calculate_correlations(given, cache) ==
    LET merged_df == EffectiveTable(given, cache)
    IN  IF merged_df = <<>> THEN NoMergedData ELSE correlations(merged_df[1])

-----------------------------------------------------------------------------
(* get_summary_statistics *)

\* Series.mean(), .std() (sample, N-1; kept as its square), .min(), .max():
\* missing values are skipped; missing when too few values are present
mean(col) ==
    LET v == dropna(col)
    IN  IF v = <<>> THEN NaN ELSE RDiv(SumSeq(v), Num(Len(v)))

std_squared(col) ==
    LET v == dropna(col)
        m == mean(col)
    IN  IF Len(v) < 2 THEN NaN
        ELSE RDiv(SumSeq([i \in Idx(v) |-> RMul(RSub(v[i], m), RSub(v[i], m))]),
                  Num(Len(v) - 1))

min(col) ==
    LET v == dropna(col)
    IN  IF v = <<>> THEN NaN ELSE CHOOSE x \in Range(v) : \A y \in Range(v) : RLe(x, y)

max(col) ==
    LET v == dropna(col)
    IN  IF v = <<>> THEN NaN ELSE CHOOSE x \in Range(v) : \A y \in Range(v) : RLe(y, x)

describe(col) ==
    [mean |-> mean(col), median |-> median(col), std_squared |-> std_squared(col),
     min |-> min(col), max |-> max(col)]

\* value_counts() of the categorical column: every label, with its count
value_counts(col) ==
    [l \in Range(labels) |-> Cardinality({i \in Idx(col) : col[i] = <<l>>})]

\* lines 159-197 on a table
summary(df) ==
    [kind |-> "summary",
     total_days |-> NRows(df),
     date_range |-> IF NRows(df) = 0 THEN [start |-> NaN, end |-> NaN]
                    ELSE [start |-> <<Min(Range(df.date))>>,
                          end |-> <<Max(Range(df.date))>>],
     aqi_stats |-> [c \in {c \in Range(aqi_cols) : c \in Columns(df)} |->
                      describe(df.cols[c])],
     transport_stats |-> [c \in {c \in Range(transport_cols) : c \in Columns(df)} |->
                            describe(df.cols[c])],
     aqi_category_distribution |->
         IF "AQI_Category" \in Columns(df)
         THEN <<value_counts(df.cols["AQI_Category"])>> ELSE <<>>]

\* get_summary_statistics(merged_df=given) with self.merged_data = cache
get_summary_statistics(given, cache) ==
    LET merged_df == EffectiveTable(given, cache)
    IN  IF merged_df = <<>> THEN NoMergedData ELSE summary(merged_df[1])

-----------------------------------------------------------------------------
(* add_lag_features *)

\* Series.shift(-lag): row i takes the value of row i + lag
shift_back(col, lag) ==
    [i \in Idx(col) |-> IF i + lag \in Idx(col) THEN col[i + lag] ELSE NaN]

\* Series.shift(lag): row i takes the value of row i - lag, rows without
\* such a row are missing
shift(col, lag) ==
    [i \in Idx(col) |-> IF i - lag \in Idx(col) THEN col[i - lag] ELSE NaN]

\* Series.rolling(window).mean() with the default min_periods = window
rolling_mean_full(col, window) ==
    [i \in Idx(col) |->
        LET seen == SubSeq(col, IF i - window + 1 < 1 THEN 1 ELSE i - window + 1, i)
        IN  IF Len(dropna(seen)) < window THEN NaN ELSE mean(seen)]

\* Series.rolling(window=window, min_periods=1).mean(): the mean of the
\* present values among the last `window` rows up to row i, missing when
\* none of them is present
rolling_mean(col, window) ==
    [i \in Idx(col) |->
        LET seen == SubSeq(col, IF i - window + 1 < 1 THEN 1 ELSE i - window + 1, i)
        IN  IF Len(dropna(seen)) < 1 THEN NaN ELSE mean(seen)]

windows == <<3, 7, 14>>

lag_name(col, lag) == col \o "_lag_" \o ToString(lag)

rolling_name(col, window) == col \o "_rolling_" \o ToString(window) \o "d"

\* lines 207-220 on a table that has the AQI and total_passengers columns
lag_features(df, lag_days) ==
    LET sorted == sort_values(df)
        srcs == {"AQI", "total_passengers"}
        lagged == [n \in {lag_name(c, lag_days[k]) : c \in srcs, k \in Idx(lag_days)} |->
                     LET c == CHOOSE c \in srcs :
                                 \E k \in Idx(lag_days) : lag_name(c, lag_days[k]) = n
                         k == CHOOSE k \in Idx(lag_days) : lag_name(c, lag_days[k]) = n
                     IN  shift(sorted.cols[c], lag_days[k])]
        rolled == [n \in {rolling_name(c, windows[k]) : c \in srcs, k \in Idx(windows)} |->
                     LET c == CHOOSE c \in srcs :
                                 \E k \in Idx(windows) : rolling_name(c, windows[k]) = n
                         k == CHOOSE k \in Idx(windows) : rolling_name(c, windows[k]) = n
                     IN  rolling_mean(sorted.cols[c], windows[k])]
    IN  [sorted EXCEPT !.cols = rolled @@ lagged @@ sorted.cols]

\* the columns are set on the caller's table
AfterAddLag_in_place(merged_df, out) == out

\* the caller's table after add_lag_features(merged_df): line 208 binds the
\* name to the new table sort_values returns, the columns of lines 212-218
\* are set on that one
AfterAddLag(merged_df, out) == merged_df

\* add_lag_features(merged_df=given, lag_days) with self.merged_data = cache:
\* without a table given, None.copy() raises AttributeError when nothing was
\* merged (line 202, before the check of line 204)
add_lag_features(given, cache, lag_days) ==
    IF given = <<>> /\ cache = <<>>
    THEN [kind |-> "raise", exc |-> "AttributeError"]
    ELSE LET merged_df == EffectiveTable(given, cache)[1]
         IN  IF {"AQI", "total_passengers"} \subseteq Columns(merged_df)
             THEN [kind |-> "table", table |-> lag_features(merged_df, lag_days)]
             ELSE [kind |-> "raise", exc |-> "KeyError"]

-----------------------------------------------------------------------------
(* Inputs: AQI tables *)

NoTable == [date |-> <<>>, cols |-> <<>>]

NoGen == [start |-> 0, days |-> 0, i |-> 0, data |-> <<>>]

NoArg == [aqi |-> NoTable, transport |-> NoTable, merged_df |-> <<>>, lag_days |-> <<>>]

NoRet == [kind |-> "none"]

\* strictly ascending date sequences of a given length
RECURSIVE AscSeqs(_, _, _)
AscSeqs(n, lo, hi) ==
    IF n = 0 THEN {<<>>}
    ELSE UNION {{<<d>> \o s : s \in AscSeqs(n - 1, d + 1, hi)} : d \in lo..hi}

AqiCells == {NaN, Num(0), Num(40), Num(60), Num(70)}

AqiTable(dates, aqi) == [date |-> dates, cols |-> [c \in {"AQI"} |-> aqi]]

\* tables with missing values, on equally and unequally spaced dates
GapTables ==
    UNION {{AqiTable(ds, v) : ds \in AscSeqs(n, 1, MaxDate + 1), v \in [1..n -> AqiCells]} :
           n \in 0..MaxLen}

\* one-row tables over the whole range of the bins and a little beyond
RangeTables ==
    {AqiTable(<<1>>, <<Num(x)>>) :
        x \in (bins[1] - Margin)..(bins[Len(bins)] + Margin)}

\* two-row tables with any of the AQI and PM2.5 columns, each cell present or
\* missing
ColumnTables ==
    UNION {{[date |-> <<1, 2>>, cols |-> v] :
               v \in [cs -> [1..2 -> {NaN, Num(40)}]]} : cs \in SUBSET {"AQI", "PM2.5"}}

AqiInputs == GapTables \cup RangeTables \cup ColumnTables

-----------------------------------------------------------------------------
(* Inputs: transport tables.  The order of the events has no part in the    *)
(* pivot, so each collection of events is drawn once, in date order.        *)

ModeNames == <<"bus", "metro", "tram">>

Passengers == <<50, 100>>

\* the event kinds (date, mode, number_of_passengers), numbered in date order
EventKinds(first, nModes, nCounts) ==
    LET K == MaxDate * nModes * nCounts
    IN  [k \in 1..K |->
            [date |-> ((k - 1) \div (nModes * nCounts)) + first,
             mode |-> ModeNames[(((k - 1) \div nCounts) % nModes) + 1],
             n |-> Passengers[((k - 1) % nCounts) + 1]]]

RECURSIVE NonDecreasing(_, _, _)
NonDecreasing(n, lo, hi) ==
    IF n = 0 THEN {<<>>}
    ELSE UNION {{<<k>> \o s : s \in NonDecreasing(n - 1, k, hi)} : k \in lo..hi}

TransportTable(events) ==
    [date |-> [i \in Idx(events) |-> events[i].date],
     cols |-> [c \in {"mode", "number_of_passengers"} |->
                 [i \in Idx(events) |->
                     IF c = "mode" THEN events[i].mode ELSE Num(events[i].n)]]]

TransportTables(first, nModes, nCounts, sizes) ==
    LET kinds == EventKinds(first, nModes, nCounts)
    IN  UNION {{TransportTable([i \in Idx(ks) |-> kinds[ks[i]]]) :
                   ks \in NonDecreasing(n, 1, Len(kinds))} : n \in sizes}

\* three modes, two passenger counts, at least one event
TransportInputs == TransportTables(1, 3, 2, 1..MaxEvents)

\* bus and metro events of 50 passengers on dates 2..MaxDate + 1 (the AQI
\* tables of the merge have dates 1..MaxDate), one event more than in the
\* inputs of the pivot, the empty table included
MergeTransportInputs == TransportTables(2, 2, 1, 0..(MaxEvents + 1))

\* AQI tables with distinct dates in any row order, every AQI value present
RECURSIVE DistinctSeqs(_, _)
DistinctSeqs(n, S) ==
    IF n = 0 THEN {<<>>}
    ELSE UNION {{<<d>> \o s : s \in DistinctSeqs(n - 1, S \ {d})} : d \in S}

MergeAqiInputs ==
    UNION {{AqiTable(ds, [i \in Idx(ds) |-> Num(40 * ds[i])]) :
               ds \in DistinctSeqs(n, Dates)} : n \in 0..MaxLen}

-----------------------------------------------------------------------------
(* SpecAqi: process_aqi_data on its own *)

InitAqi ==
    /\ pc = "start"
    /\ aqi_df \in AqiInputs
    /\ transport_df = NoTable
    /\ arg = NoArg
    /\ merged_data = <<>>
    /\ ret = NoRet
    /\ ref = <<>>
    /\ given_df = <<>>
    /\ gen = NoGen

CallProcessAqi ==
    /\ pc = "start"
    /\ LET r == process_aqi_data(aqi_df)
       IN  /\ aqi_df' = r.df
           /\ ret' = IF r.raised THEN [kind |-> "raise", exc |-> "KeyError"]
                     ELSE [kind |-> "table", table |-> r.df]
    /\ arg' = [NoArg EXCEPT !.aqi = aqi_df]
    /\ pc' = "process_aqi_data"
    /\ UNCHANGED <<transport_df, merged_data, ref, given_df, gen>>

NextAqi == CallProcessAqi

SpecAqi == InitAqi /\ [][NextAqi]_vars

-----------------------------------------------------------------------------
(* SpecTransport: process_transport_data on its own *)

InitTransport ==
    /\ pc = "start"
    /\ aqi_df = NoTable
    /\ transport_df \in TransportInputs
    /\ arg = NoArg
    /\ merged_data = <<>>
    /\ ret = NoRet
    /\ ref = <<>>
    /\ given_df = <<>>
    /\ gen = NoGen

CallProcessTransport ==
    /\ pc = "start"
    /\ LET r == process_transport_data(transport_df)
       IN  /\ transport_df' = r.df
           /\ ret' = [kind |-> "table", table |-> r.out]
    /\ arg' = [NoArg EXCEPT !.transport = transport_df]
    /\ pc' = "process_transport_data"
    /\ UNCHANGED <<aqi_df, merged_data, ref, given_df, gen>>

NextTransport == CallProcessTransport

SpecTransport == InitTransport /\ [][NextTransport]_vars

-----------------------------------------------------------------------------
(* SpecMerge: one merge_datasets call on a fresh DataProcessor *)

InitMerge ==
    /\ pc = "start"
    /\ aqi_df \in MergeAqiInputs
    /\ transport_df \in MergeTransportInputs
    /\ arg = NoArg
    /\ merged_data = <<>>
    /\ ret = NoRet
    /\ ref = <<>>
    /\ given_df = <<>>
    /\ gen = NoGen

\* merged_df = processor.merge_datasets(aqi, transport); aqi_df and
\* transport_df are the caller's two table objects afterwards.  What pandas does with a transport
\* table that has no rows is not fixed by the source: the call either fails
\* in process_transport_data or goes on with a pivot that has no rows.
CallMerge(aqi, transport) ==
    /\ LET r == merge_datasets(aqi, transport)
       IN  \E fails \in IF NRows(transport) = 0 THEN BOOLEAN ELSE {FALSE} :
               /\ aqi_df' = r.aqi
               /\ IF r.raised \/ fails
                  THEN /\ ret' = [kind |-> "raise",
                                  exc |-> IF r.raised THEN "KeyError" ELSE "pandas"]
                       /\ transport_df' = transport
                       /\ UNCHANGED merged_data
                  ELSE /\ transport_df' = r.transport
                       /\ merged_data' = <<r.merged>>
                       /\ ret' = [kind |-> "table", table |-> r.merged]
    /\ arg' = [NoArg EXCEPT !.aqi = aqi, !.transport = transport]
    /\ given_df' = <<>>
    /\ pc' = "merge_datasets"
    /\ UNCHANGED <<ref, gen>>

NextMerge == pc = "start" /\ CallMerge(aqi_df, transport_df)

SpecMerge == InitMerge /\ [][NextMerge]_vars

-----------------------------------------------------------------------------
(* The statistics calls.  `tables` are the tables a caller may pass, `keep` *)
(* says whether a call may be the one kept in ref.                          *)

Kept(op, given, result, keep) ==
    IF keep /\ ref = <<>>
    THEN <<[op |-> op, given |-> given, cache |-> merged_data, ret |-> result]>>
    ELSE ref

\* no table (None), one of `tables`, or the table the processor holds
Given(tables) == {<<>>} \cup {<<t>> : t \in tables} \cup {merged_data}

CallCorrelations(tables, keeps) ==
    \E given \in Given(tables), keep \in (IF ref = <<>> THEN keeps ELSE {FALSE}) :
        LET result == calculate_correlations(given, merged_data)
        IN  /\ ret' = result
            /\ arg' = [NoArg EXCEPT !.merged_df = given]
            /\ ref' = Kept("calculate_correlations", given, result, keep)
            /\ given_df' = given
            /\ pc' = "calculate_correlations"
            /\ UNCHANGED <<aqi_df, transport_df, merged_data, gen>>

CallSummary(tables, keeps) ==
    \E given \in Given(tables), keep \in (IF ref = <<>> THEN keeps ELSE {FALSE}) :
        LET result == get_summary_statistics(given, merged_data)
        IN  /\ ret' = result
            /\ arg' = [NoArg EXCEPT !.merged_df = given]
            /\ ref' = Kept("get_summary_statistics", given, result, keep)
            /\ given_df' = given
            /\ pc' = "get_summary_statistics"
            /\ UNCHANGED <<aqi_df, transport_df, merged_data, gen>>

CallAddLag(tables, lists) ==
    \E given \in Given(tables), lag_days \in lists :
        /\ LET result == add_lag_features(given, merged_data, lag_days)
           IN  /\ ret' = result
               /\ given_df' = IF given # <<>> /\ result.kind = "table"
                               THEN <<AfterAddLag(given[1], result.table)>>
                               ELSE given
        /\ arg' = [NoArg EXCEPT !.merged_df = given, !.lag_days = lag_days]
        /\ pc' = "add_lag_features"
        /\ UNCHANGED <<aqi_df, transport_df, merged_data, ref, gen>>

-----------------------------------------------------------------------------
(* SpecStats: one statistics call on a fresh DataProcessor *)

\* tables for the correlations and the summary: n rows on the dates 1..n,
\* an AQI column and a bus column with missing values, total_passengers as
\* process_transport_data derives it when there is no metro column
StatTables ==
    UNION {{LET t == [date |-> [i \in 1..n |-> i],
                      cols |-> [c \in {"AQI", "bus"} |-> IF c = "AQI" THEN a ELSE b]]
            IN  SetCol(t, "total_passengers", total_passengers(t)) :
               a \in [1..n -> {NaN, Num(10), Num(20)}],
               b \in [1..n -> {NaN, Num(50), Num(100)}]} : n \in 0..MaxLen}

\* merged tables of three dates with a column for each of some modes, every
\* value present, total_passengers as process_transport_data derives it
ModeTables ==
    {LET t == [date |-> <<1, 2, 3>>,
               cols |-> [c \in {"AQI"} \cup ms |->
                           IF c = "AQI" THEN <<Num(10), Num(20), Num(40)>>
                           ELSE IF c = "bus" THEN <<Num(50), Num(100), Num(50)>>
                           ELSE <<Num(100), Num(100), Num(50)>>]]
     IN  SetCol(t, "total_passengers", total_passengers(t)) :
        ms \in SUBSET Range(ModeNames)}

\* tables for the lag features: distinct dates in any row order, the AQI
\* column 10, 20, ... in row order, total_passengers with missing values
LagTables ==
    UNION {{[date |-> ds,
             cols |-> [c \in {"AQI", "total_passengers"} |->
                         IF c = "AQI" THEN [i \in 1..n |-> Num(10 * i)] ELSE p]] :
               ds \in DistinctSeqs(n, Dates),
               p \in [1..n -> {NaN, Num(100)}]} : n \in 0..MaxRows}

\* the default lag_days and others
LagLists == {<<1, 3, 7>>, <<1>>, <<2, 0>>, <<>>}

InitStats ==
    /\ pc = "start"
    /\ aqi_df = NoTable
    /\ transport_df = NoTable
    /\ arg = NoArg
    /\ merged_data = <<>>
    /\ ret = NoRet
    /\ ref = <<>>
    /\ given_df = <<>>
    /\ gen = NoGen

StatsCorrelations == pc = "start" /\ CallCorrelations(StatTables \cup ModeTables, {FALSE})

StatsSummary == pc = "start" /\ CallSummary(StatTables, {FALSE})

StatsAddLag == pc = "start" /\ CallAddLag(LagTables, LagLists)

NextStats == StatsCorrelations \/ StatsSummary \/ StatsAddLag

SpecStats == InitStats /\ [][NextStats]_vars

-----------------------------------------------------------------------------
(* Spec: a DataProcessor in use.  The caller loads tables, merges them and  *)
(* asks for statistics, in any order and any number of times.               *)

Events(es) ==
    TransportTable([i \in Idx(es) |-> [date |-> es[i][1], mode |-> es[i][2], n |-> es[i][3]]])

LifeAqiInputs ==
    {AqiTable(<<1, 2, 3>>, <<Num(80), Num(120), Num(90)>>),
     AqiTable(<<3, 1, 2>>, <<Num(40), NaN, Num(60)>>)}

LifeTransportInputs ==
    {Events(<<<<1, "bus", 100>>, <<1, "metro", 200>>, <<2, "bus", 50>>,
              <<2, "metro", 100>>, <<3, "bus", 50>>, <<3, "metro", 50>>>>),
     Events(<<<<1, "bus", 100>>, <<2, "bus", 50>>, <<2, "bus", 50>>, <<4, "bus", 50>>>>)}

\* tables a caller passes explicitly (filtered or hand-made merged tables)
LifeTables ==
    {[date |-> <<1, 2, 3>>,
      cols |-> [c \in {"AQI", "bus", "total_passengers"} |->
                  IF c = "AQI" THEN <<Num(10), Num(20), Num(20)>>
                  ELSE <<Num(50), Num(100), Num(50)>>]],
     [date |-> <<2, 1>>,
      cols |-> [c \in {"AQI", "bus", "total_passengers"} |->
                  IF c = "AQI" THEN <<Num(10), Num(20)>>
                  ELSE <<Num(100), Num(50)>>]]}

Init ==
    /\ pc = "new"
    /\ aqi_df = NoTable
    /\ transport_df = NoTable
    /\ arg = NoArg
    /\ merged_data = <<>>
    /\ ret = NoRet
    /\ ref = <<>>
    /\ given_df = <<>>
    /\ gen = NoGen

\* the caller loads two tables (load_aqi_data, load_transport_data give
\* fresh table objects) and merges them
Merge == \E aqi \in LifeAqiInputs, transport \in LifeTransportInputs : CallMerge(aqi, transport)

Correlations == CallCorrelations(LifeTables, BOOLEAN)

Summary == CallSummary(LifeTables, BOOLEAN)

AddLag == CallAddLag(LifeTables, {<<1, 3, 7>>})

Next == Merge \/ Correlations \/ Summary \/ AddLag

Spec == Init /\ [][Next]_vars

-----------------------------------------------------------------------------
(* TransportDataGenerator.generate_transport_data (data_fetcher.py) *)

\* int(x): truncation towards zero
int(x) == IF x[1] >= 0 THEN x[1] \div x[2] ELSE -((-x[1]) \div x[2])

\* max(0, n) dropped
max0_dropped(n) == n

\* max(0, n)
max0(n) == IF n < 0 THEN 0 ELSE n

\* np.random.normal(loc, scale) can give any real number; two are drawn: one
\* far below the mean (negative for every call the source makes) and one
\* above it that is no integer
normal(loc, scale) == {Num(loc - 8 * scale), Rat(2 * (loc + scale) + 1, 2)}

\* seasonal_factor = 1 + 0.3 * sin(...) lies in [0.7, 1.3]; the day of the
\* year is not modelled, the two ends of the range are drawn
seasonal_factors == {Rat(7, 10), Rat(13, 10)}

\* lines 133-144: the two records of one date
day_records(date, bus_passengers, metro_passengers) ==
    <<[date |-> date, mode |-> "bus", n |-> bus_passengers],
      [date |-> date, mode |-> "metro", n |-> metro_passengers]>>

\* pd.DataFrame(data): a list of no records gives a table with no columns
DataFrame(data) ==
    IF data = <<>> THEN [date |-> <<>>, cols |-> <<>>] ELSE TransportTable(data)

GenStarts == {1, 5, 6}

InitGen ==
    /\ pc = "generate_transport_data"
    /\ gen \in [start : GenStarts, days : 0..MaxDays, i : {0}, data : {<<>>}]
    /\ aqi_df = NoTable
    /\ transport_df = NoTable
    /\ arg = NoArg
    /\ merged_data = <<>>
    /\ ret = NoRet
    /\ ref = <<>>
    /\ given_df = <<>>

\* one pass of the loop over dates (lines 109-144)
GenLoop ==
    /\ pc = "generate_transport_data"
    /\ gen.i < gen.days
    /\ LET date == gen.start + gen.i
           weekend == weekday(date) >= 5
       IN  \E seasonal_factor \in seasonal_factors :
           \E base_bus \in IF weekend THEN normal(8000, 1500) ELSE normal(15000, 2500) :
           \E base_metro \in IF weekend THEN normal(12000, 2000) ELSE normal(25000, 3500) :
               LET bus_passengers == max0(int(RMul(base_bus, seasonal_factor)))
                   metro_passengers == max0(int(RMul(base_metro, seasonal_factor)))
               IN  gen' = [gen EXCEPT
                              !.i = @ + 1,
                              !.data = @ \o day_records(date, bus_passengers,
                                                        metro_passengers)]
    /\ UNCHANGED <<pc, aqi_df, transport_df, arg, merged_data, ret, ref, given_df>>

\* line 146, after the last date
GenReturn ==
    /\ pc = "generate_transport_data"
    /\ gen.i = gen.days
    /\ ret' = [kind |-> "table", table |-> DataFrame(gen.data)]
    /\ pc' = "generated"
    /\ UNCHANGED <<aqi_df, transport_df, arg, merged_data, ref, given_df, gen>>

NextGen == GenLoop \/ GenReturn

SpecGen == InitGen /\ [][NextGen]_vars

-----------------------------------------------------------------------------
(* AQIDataFetcher.calculate_aqi_from_pm25 (data_fetcher.py) *)

\* lines 81-88: (c_low, c_high, i_low, i_high)
breakpoints ==
    <<[c_low |-> Rat(0, 1), c_high |-> Rat(120, 10), i_low |-> 0, i_high |-> 50],
      [c_low |-> Rat(121, 10), c_high |-> Rat(354, 10), i_low |-> 51, i_high |-> 100],
      [c_low |-> Rat(355, 10), c_high |-> Rat(554, 10), i_low |-> 101, i_high |-> 150],
      [c_low |-> Rat(555, 10), c_high |-> Rat(1504, 10), i_low |-> 151, i_high |-> 200],
      [c_low |-> Rat(1505, 10), c_high |-> Rat(2504, 10), i_low |-> 201, i_high |-> 300],
      [c_low |-> Rat(2505, 10), c_high |-> Rat(5004, 10), i_low |-> 301, i_high |-> 500]>>

\* lines 77-94: missing for a missing value; the first row whose range holds
\* the value gives int() of the point on the row's line; 500 when no row does.
\* (On every concentration of the model the floating-point expression of line
\* 92 truncates to the same integer as the exact one.)
calculate_aqi_from_pm25(pm25_value) ==
    IF IsNaN(pm25_value) THEN NaN
    ELSE LET hit == {i \in Idx(breakpoints) :
                        /\ RLe(breakpoints[i].c_low, pm25_value)
                        /\ RLe(pm25_value, breakpoints[i].c_high)}
         IN  IF hit = {} THEN Num(500)
             ELSE LET b == breakpoints[Min(hit)]
                  IN  Num(int(RAdd(RMul(RDiv(Num(b.i_high - b.i_low),
                                             RSub(b.c_high, b.c_low)),
                                        RSub(pm25_value, b.c_low)),
                                   Num(b.i_low))))

\* concentrations at 0.01 resolution, and a missing one
Pm25Inputs == {NaN} \cup {Rat(k, 100) : k \in 0..MaxPm25}

InitPm25 ==
    /\ pc = "start"
    /\ aqi_df = NoTable
    /\ transport_df = NoTable
    /\ arg = NoArg
    /\ merged_data = <<>>
    /\ ret = NoRet
    /\ ref = <<>>
    /\ given_df = <<>>
    /\ gen = NoGen

CallAqiFromPm25 ==
    /\ pc = "start"
    /\ \E pm25_value \in Pm25Inputs :
           /\ arg' = [pm25_value |-> pm25_value]
           /\ ret' = [kind |-> "value", value |-> calculate_aqi_from_pm25(pm25_value)]
    /\ pc' = "calculate_aqi_from_pm25"
    /\ UNCHANGED <<aqi_df, transport_df, merged_data, ref, given_df, gen>>

NextPm25 == CallAqiFromPm25

SpecPm25 == InitPm25 /\ [][NextPm25]_vars

\* C19 as stated: every present concentration c with 0 <= c <= 500.4, at 0.01
\* resolution, falls in one breakpoint row and gets an AQI inside that row's
\* index range (so 500 is the fallback only above 500.4), and the result is
\* non-decreasing in c: no less than the result for c - 0.01.
C19_EveryConcentrationInARow ==
    (/\ pc = "calculate_aqi_from_pm25"
     /\ ~IsNaN(arg.pm25_value)
     /\ RLe(Num(0), arg.pm25_value)
     /\ RLe(arg.pm25_value, Rat(5004, 10))) =>
        LET c == arg.pm25_value
            below == RSub(c, Rat(1, 100))
        IN  /\ \E i \in Idx(breakpoints) :
                   /\ RLe(breakpoints[i].c_low, c) /\ RLe(c, breakpoints[i].c_high)
                   /\ RLe(Num(breakpoints[i].i_low), ret.value)
                   /\ RLe(ret.value, Num(breakpoints[i].i_high))
            /\ RLe(Num(0), below) =>
                   RLe(calculate_aqi_from_pm25(below), ret.value)

-----------------------------------------------------------------------------
(* Claims on process_aqi_data (checked under SpecAqi) *)

AqiDone == pc = "process_aqi_data" /\ ret.kind = "table"

IsInt(x) == ~IsNaN(x) /\ x[2] = 1

\* the category the claim gives an integer AQI value
ClaimedCategory(v) ==
    IF v <= 50 THEN "Good"
    ELSE IF v <= 100 THEN "Moderate"
    ELSE IF v <= 150 THEN "Unhealthy for Sensitive"
    ELSE IF v <= 200 THEN "Unhealthy"
    ELSE IF v <= 300 THEN "Very Unhealthy"
    ELSE "Hazardous"

\* C3: process_aqi_data gives every integer AQI value in 0..500 the category
\* of its bin, upper bounds inclusive: 0..50 Good, 51..100 Moderate, 101..150
\* Unhealthy for Sensitive, 151..200 Unhealthy, 201..300 Very Unhealthy,
\* 301..500 Hazardous.
C3_CategoryBins ==
    AqiDone =>
        \A i \in Idx(arg.aqi.date) :
            LET x == arg.aqi.cols["AQI"][i]
            IN  (IsInt(x) /\ x[1] >= 0 /\ x[1] <= 500) =>
                    aqi_df.cols["AQI_Category"][i] = <<ClaimedCategory(x[1])>>

C3_Witness ==
    /\ AqiDone
    /\ \E i \in Idx(arg.aqi.date) :
           /\ arg.aqi.cols["AQI"][i] = Num(50)
           /\ aqi_df.cols["AQI_Category"][i] = <<"Good">>

\* the rows of a column that are present / the gap a missing row lies in
Present(col) == {j \in Idx(col) : ~IsNaN(col[j])}

Interior(col, i) ==
    IsNaN(col[i]) /\ (\E a \in Present(col) : a < i) /\ (\E b \in Present(col) : b > i)

Leading(col, i) == IsNaN(col[i]) /\ Present(col) # {} /\ \A a \in Present(col) : a > i

Trailing(col, i) == IsNaN(col[i]) /\ Present(col) # {} /\ \A a \in Present(col) : a < i

LeftOf(col, i) == Max({a \in Present(col) : a < i})

RightOf(col, i) == Min({b \in Present(col) : b > i})

\* the point on the line through (xa, ya), (xb, yb) at x
OnLine(xa, ya, xb, yb, x) == RAdd(ya, RMul(RSub(yb, ya), Rat(x - xa, xb - xa)))

\* C6 as stated: a missing value between two present values becomes their
\* linear interpolation along the date axis, and a value in a leading or
\* trailing gap becomes the median of the column over the whole series (the
\* median of the values given, or of the column after interpolation).
C6_AsStated ==
    AqiDone =>
        \A c \in Columns(arg.aqi) \cap numeric_cols :
            LET in == arg.aqi.cols[c]
                out == aqi_df.cols[c]
                d == arg.aqi.date
            IN  \A i \in Idx(in) :
                    /\ Interior(in, i) =>
                          out[i] = OnLine(d[LeftOf(in, i)], in[LeftOf(in, i)],
                                          d[RightOf(in, i)], in[RightOf(in, i)], d[i])
                    /\ (Leading(in, i) \/ Trailing(in, i)) =>
                          out[i] \in {median(in), median(interpolate(in))}

\* C6 amended: a missing value between two present values becomes their linear
\* interpolation by row position (rows equally spaced, whatever their dates);
\* a value in a trailing gap becomes the last present value; a value in a
\* leading gap becomes the median of the column as it stands after those two
\* fills (a column with no present value is left as it is).
C6_FillByPosition ==
    AqiDone =>
        \A c \in Columns(arg.aqi) \cap numeric_cols :
            LET in == arg.aqi.cols[c]
                out == aqi_df.cols[c]
            IN  \A i \in Idx(in) :
                    /\ Interior(in, i) =>
                          out[i] = OnLine(LeftOf(in, i), in[LeftOf(in, i)],
                                          RightOf(in, i), in[RightOf(in, i)], i)
                    /\ Trailing(in, i) => out[i] = in[LeftOf(in, i)]
                    /\ Leading(in, i) =>
                          out[i] = median([j \in Idx(in) |->
                                             IF Leading(in, j) THEN NaN ELSE out[j]])

\* 40, missing, 60 on three dates became 40, 50, 60
C6_Witness ==
    /\ AqiDone
    /\ arg.aqi.cols["AQI"] = <<Num(40), NaN, Num(60)>>
    /\ aqi_df.cols["AQI"] = <<Num(40), Num(50), Num(60)>>

AqiCalled == pc = "process_aqi_data"

\* C11 as stated: process_aqi_data gives an AQI value above 500 the category
\* Hazardous, and a call on a table with a negative AQI value fails instead of
\* giving that value a category or a missing category.
C11_OutOfDomain ==
    (AqiCalled /\ "AQI" \in Columns(arg.aqi)) =>
        LET in == arg.aqi.cols["AQI"]
        IN  /\ (\E i \in Idx(in) : ~IsNaN(in[i]) /\ RLt(in[i], Num(0))) =>
                   ret.kind = "raise"
            /\ ret.kind = "table" =>
                   \A i \in Idx(in) :
                       (~IsNaN(in[i]) /\ RLt(Num(500), in[i])) =>
                           aqi_df.cols["AQI_Category"][i] = <<"Hazardous">>

\* C12 as stated: process_aqi_data fails when one of the numeric columns AQI,
\* PM2.5, PM10, NO2, Ozone is absent from the table given or has no present
\* value, and a table it returns has all five, without a missing value.
C12_ValidatesColumns ==
    AqiCalled =>
        /\ (\E c \in numeric_cols :
               \/ c \notin Columns(arg.aqi)
               \/ \A i \in Idx(arg.aqi.date) : IsNaN(arg.aqi.cols[c][i])) =>
               ret.kind = "raise"
        /\ ret.kind = "table" =>
               \A c \in numeric_cols :
                   /\ c \in Columns(ret.table)
                   /\ \A i \in Idx(ret.table.date) : ~IsNaN(ret.table.cols[c][i])

\* C16 as stated: process_aqi_data, process_transport_data and merge_datasets
\* leave the tables passed to them as they were: the caller's AQI table and
\* transport table have the same columns and values after the call as before.
C16_InputsUnchanged ==
    pc \in {"process_aqi_data", "process_transport_data", "merge_datasets"} =>
        /\ aqi_df = arg.aqi
        /\ transport_df = arg.transport

-----------------------------------------------------------------------------
(* Claims on process_transport_data (checked under SpecTransport) *)

TransportDone == pc = "process_transport_data" /\ ret.kind = "table"

OrZero(x) == IF IsNaN(x) THEN Num(0) ELSE x

\* the sum of row k over the columns named, a missing cell counting as zero
RECURSIVE SumColumns(_, _, _)
SumColumns(t, names, k) ==
    IF names = {} THEN Num(0)
    ELSE LET c == CHOOSE c \in names : TRUE
         IN  RAdd(OrZero(t.cols[c][k]), SumColumns(t, names \ {c}, k))

ModesSeen(df) == Range(df.cols["mode"])

EventsOn(df, d, m) ==
    {i \in Idx(df.date) : df.date[i] = d /\ df.cols["mode"][i] = m}

\* C2 as stated: in every row process_transport_data produces,
\* total_passengers is the sum of the ridership of all mode columns of that
\* row, whatever the modes are called, a mode without an event on that date
\* counting as zero.
C2_TotalIsSumOfModes ==
    TransportDone =>
        LET t == ret.table
        IN  \A k \in Idx(t.date) :
                t.cols["total_passengers"][k] =
                    SumColumns(t, ModesSeen(arg.transport), k)

\* C10 as stated: every mode seen is a column, every date has exactly one
\* row, the cell of (date, mode) is the sum of the passenger counts of the
\* events with that date and mode, and is 0, not missing, when there is none.
C10_PivotCells ==
    TransportDone =>
        LET t == ret.table
            in == arg.transport
        IN  /\ ModesSeen(in) \subseteq Columns(t)
            /\ \A d \in Range(in.date) : Cardinality({k \in Idx(t.date) : t.date[k] = d}) = 1
            /\ \A k \in Idx(t.date) : \A m \in ModesSeen(in) :
                   t.cols[m][k] =
                       SumRows(in.cols["number_of_passengers"], EventsOn(in, t.date[k], m))

-----------------------------------------------------------------------------
(* Claims on merge_datasets (checked under SpecMerge) *)

MergeDone == pc = "merge_datasets" /\ ret.kind = "table"

\* C1: for an AQI table with at most one row per date and any transport
\* table, the dates of the table merge_datasets returns are exactly the dates
\* that occur in both, each once, in ascending order.
C1_JoinDates ==
    MergeDone =>
        LET d == ret.table.date
        IN  /\ Range(d) = Range(arg.aqi.date) \cap Range(arg.transport.date)
            /\ \A i, j \in Idx(d) : i < j => d[i] < d[j]

\* an unsorted AQI table, a date of each side without a partner, two dates kept
C1_Witness ==
    /\ MergeDone
    /\ Len(ret.table.date) >= 2
    /\ \E i \in Idx(arg.aqi.date) : i > 1 /\ arg.aqi.date[i] < arg.aqi.date[i - 1]
    /\ Range(arg.aqi.date) \ Range(arg.transport.date) # {}
    /\ Range(arg.transport.date) \ Range(arg.aqi.date) # {}

-----------------------------------------------------------------------------
(* Claims on generate_transport_data (checked under SpecGen) *)

Generated == pc = "generated"

RowsOf(t, d, m) == {i \in Idx(t.date) : t.date[i] = d /\ t.cols["mode"][i] = m}

\* C9: for n >= 0 days the generator returns exactly 2*n records: for each of
\* the n consecutive dates from the start date one 'bus' and one 'metro'
\* record, each with a non-negative integer passenger count, whatever is drawn.
C9_TwoRecordsPerDay ==
    Generated =>
        LET t == ret.table
        IN  /\ NRows(t) = 2 * gen.days
            /\ \A k \in 0..(gen.days - 1) : \A m \in {"bus", "metro"} :
                   Cardinality(RowsOf(t, gen.start + k, m)) = 1
            /\ \A i \in Idx(t.date) :
                   LET n == t.cols["number_of_passengers"][i]
                   IN  IsInt(n) /\ n[1] >= 0

\* several days, a negative draw (count 0) and a positive one among them
C9_Witness ==
    /\ Generated
    /\ gen.days >= 2
    /\ \E i, j \in Idx(ret.table.date) :
           /\ ret.table.cols["number_of_passengers"][i] = Num(0)
           /\ ret.table.cols["number_of_passengers"][j][1] > 0

-----------------------------------------------------------------------------
(* Claims on the statistics calls (checked under SpecStats) *)

CorrelationsDone == pc = "calculate_correlations" /\ ret.kind = "dict"

\* a correlation coefficient between -1 and 1
CoefficientInRange(r) == ~IsNaN(r) /\ RLe(Num(0), r[1].sq) /\ RLe(r[1].sq, Num(1))

\* a p-value between 0 and 1: the tail probability of a coefficient in range
ProbabilityInRange(p) ==
    ~IsNaN(p) /\ p[1].n >= 2 /\ RLe(Num(0), p[1].sq) /\ RLe(p[1].sq, Num(1))

\* C4 as stated: every entry calculate_correlations returns has a correlation
\* between -1 and 1, a p_value between 0 and 1 and a significant flag that is
\* true exactly when p_value < 0.05, constant metric columns included.
C4_EntriesInRange ==
    CorrelationsDone =>
        \A k \in DOMAIN ret.dict :
            /\ CoefficientInRange(ret.dict[k].correlation)
            /\ ProbabilityInRange(ret.dict[k].p_value)
            /\ ret.dict[k].significant = below_005(ret.dict[k].p_value)

CorrelationsCalled == pc = "calculate_correlations" /\ arg.merged_df # <<>>

\* the metric pairs of the code that a table has
PairsOf(df) ==
    {<<a, t>> : a \in {c \in Range(aqi_cols) : c \in Columns(df)},
                t \in {c \in Range(transport_cols) : c \in Columns(df)}}

\* the rows of a table in which both columns of a pair are present, and a
\* column restricted to them
CompleteRows(df, p) ==
    SelectSeq([i \in Idx(df.date) |-> i],
              LAMBDA i : ~IsNaN(df.cols[p[1]][i]) /\ ~IsNaN(df.cols[p[2]][i]))

Restricted(col, rows) == [k \in Idx(rows) |-> col[rows[k]]]

\* C13 as stated: for each metric pair the coefficient is computed over
\* exactly the rows in which both columns of the pair are present, each AQI
\* value paired with the transport value of the same row; a row missing a
\* value of the pair is dropped for that pair only and neither shifts the
\* pairing nor fails the call (pairs with at least 2 such rows).
C13_PairwiseComplete ==
    CorrelationsCalled =>
        LET df == arg.merged_df[1]
        IN  (\A p \in PairsOf(df) : Len(CompleteRows(df, p)) >= 2) =>
                /\ ret.kind = "dict"
                /\ \A p \in PairsOf(df) :
                       LET rows == CompleteRows(df, p)
                       IN  <<ret.dict[key(p[1], p[2])]>> =
                               entry(Restricted(df.cols[p[1]], rows),
                                     Restricted(df.cols[p[2]], rows))

\* C14 as stated: calculate_correlations fails when a metric pair has fewer
\* than 2 rows with both values present (an empty table included), and so
\* never returns an entry computed from fewer than 2 paired observations.
C14_InsufficientData ==
    CorrelationsCalled =>
        LET df == arg.merged_df[1]
        IN  (\E p \in PairsOf(df) : Len(CompleteRows(df, p)) < 2) =>
                ret.kind = "raise"

\* the ridership columns of a merged table: one per mode, whatever its name
ModeColumns(df) ==
    Columns(df) \ (numeric_cols \cup {"AQI_Category", "day_of_week", "is_weekend",
                                      "total_passengers"})

\* C15 as stated: the result has exactly one entry for every combination of
\* an AQI-side metric present (AQI and the pollutant columns) and a
\* transport-side metric present (every mode column, whatever the mode's
\* name, and total_passengers), and no other entry.
C15_EntryPerCombination ==
    (CorrelationsCalled /\ ret.kind = "dict") =>
        LET df == arg.merged_df[1]
        IN  DOMAIN ret.dict =
                {key(a, t) : a \in numeric_cols \cap Columns(df),
                             t \in ModeColumns(df) \cup
                                      ({"total_passengers"} \cap Columns(df))}

LagDone == pc = "add_lag_features" /\ ret.kind = "table"

\* the rows of the table given, in ascending date order
ByDate(t) == sort_values(t)

\* C7: for every lag k asked for, add_lag_features adds the columns AQI_lag_k
\* and total_passengers_lag_k, whose value in row i (rows in ascending date
\* order) is the source column's value in row i-k and is missing in the
\* first k rows.
C7_LagColumns ==
    LagDone =>
        LET in == ByDate(arg.merged_df[1])
            out == ret.table
        IN  \A k \in Range(arg.lag_days) : \A c \in {"AQI", "total_passengers"} :
                /\ lag_name(c, k) \in Columns(out)
                /\ Len(out.cols[lag_name(c, k)]) = NRows(in)
                /\ \A i \in 1..NRows(in) :
                       out.cols[lag_name(c, k)][i] =
                           IF i <= k THEN NaN ELSE in.cols[c][i - k]

\* lag 1 on the AQI sequence 10, 20, 30
C7_Witness ==
    /\ LagDone
    /\ 1 \in Range(arg.lag_days)
    /\ ret.table.cols["AQI"] = <<Num(10), Num(20), Num(30)>>
    /\ ret.table.cols["AQI_lag_1"] = <<NaN, Num(10), Num(20)>>

-----------------------------------------------------------------------------
(* Claims on a DataProcessor in use (checked under Spec) *)

StatsCall == pc \in {"calculate_correlations", "get_summary_statistics"}

\* the merged table a call is made on: the one passed, else the one held
TableOf(given, cache) == IF given # <<>> THEN given ELSE cache

StatsOps == {"calculate_correlations", "get_summary_statistics", "add_lag_features"}

\* what a call of one of the three gives on a table, by the name of the call
ResultOn(op, given, cache, lag_days) ==
    CASE op = "calculate_correlations" -> calculate_correlations(given, cache)
      [] op = "get_summary_statistics" -> get_summary_statistics(given, cache)
      [] op = "add_lag_features" -> add_lag_features(given, cache, lag_days)

\* C17: in any sequence of operations on one DataProcessor, merged_data
\* changes only in merge_datasets, which sets it to the table it returns;
\* calculate_correlations, get_summary_statistics and add_lag_features change
\* neither merged_data nor the table they are given, and given a table their
\* result is what it would be with nothing held in merged_data.
C17_CacheFrame ==
    [][/\ merged_data' # merged_data =>
            /\ pc' = "merge_datasets"
            /\ ret'.kind = "table"
            /\ merged_data' = <<ret'.table>>
       /\ pc' \in StatsOps =>
            /\ merged_data' = merged_data
            /\ given_df' = arg'.merged_df
            /\ arg'.merged_df # <<>> =>
                   ret' = ResultOn(pc', arg'.merged_df, <<>>, arg'.lag_days)]_vars

\* add_lag_features was given a table other than the one held and returned a
\* table with the lag columns
C17_Witness ==
    /\ pc = "add_lag_features"
    /\ merged_data # <<>>
    /\ arg.merged_df # <<>>
    /\ arg.merged_df # merged_data
    /\ ret.kind = "table"
    /\ ret.table # arg.merged_df[1]
    /\ given_df = arg.merged_df

\* C18 as stated: while no merge_datasets has completed, each of the three
\* calls made without a table fails with the ValueError 'No merged data
\* available. Run merge_datasets first.'; after a completed merge_datasets
\* the same calls work on the table merged last.
C18_NoMergedData ==
    (pc \in StatsOps /\ arg.merged_df = <<>>) =>
        IF merged_data = <<>> THEN ret = NoMergedData
        ELSE ret = ResultOn(pc, merged_data, <<>>, arg.lag_days)

\* C5: two calls of calculate_correlations, or of get_summary_statistics, on
\* identical merged tables return identical results, whatever was done on the
\* processor between the two calls and whatever table it holds.
C5_SameTableSameResult ==
    (/\ StatsCall
     /\ ref # <<>>
     /\ ref[1].op = pc
     /\ TableOf(ref[1].given, ref[1].cache) = TableOf(arg.merged_df, merged_data))
        => ret = ref[1].ret

\* the same table passed twice, a correlation found, the processor holding
\* another table the second time than the first
C5_Witness ==
    /\ pc = "calculate_correlations"
    /\ ref # <<>>
    /\ ref[1].op = pc
    /\ arg.merged_df # <<>>
    /\ ref[1].given = arg.merged_df
    /\ ref[1].cache # merged_data
    /\ arg.merged_df # merged_data
    /\ ret.kind = "dict"
    /\ DOMAIN ret.dict # {}

====
